---------------------------- MODULE Spec2Model ----------------------------
(***************************************************************************)
(* Model of libconfig's setting-tree copier (contrib/copy_setting.c) and   *)
(* of its numeric literal codec (lib/util.c).                              *)
(*                                                                         *)
(* Setting trees are nested records; a config_setting_t* is a path: the    *)
(* index of the configuration followed by child indices.  The empty path   *)
(* is the NULL pointer.  Children are only ever appended, so a path stays  *)
(* valid for the whole copy, as a pointer does in the C code.              *)
(***************************************************************************)
EXTENDS Integers, Sequences, FiniteSets, TLC

VARIABLES cfg, pre, dst, src, ret, fault, build, call

vars == <<cfg, pre, dst, src, ret, fault, build, call>>

(***************************************************************************)
(* Bounds of the model.                                                    *)
(***************************************************************************)
\* number of settings below the root of the source configuration
MaxNodes == 3
\* depth of the C call stack available to the recursive copy
MaxStack == 6

(***************************************************************************)
(* Setting types and formats (enum Type / enum Format).                    *)
(***************************************************************************)
CONFIG_TYPE_GROUP  == "group"
CONFIG_TYPE_INT    == "int"
CONFIG_TYPE_INT64  == "int64"
CONFIG_TYPE_FLOAT  == "float"
CONFIG_TYPE_STRING == "string"
CONFIG_TYPE_BOOL   == "bool"
CONFIG_TYPE_ARRAY  == "array"
CONFIG_TYPE_LIST   == "list"

CONFIG_FORMAT_DEFAULT == "default"
CONFIG_FORMAT_HEX     == "hex"

ScalarTypes == {CONFIG_TYPE_INT, CONFIG_TYPE_INT64, CONFIG_TYPE_FLOAT,
                CONFIG_TYPE_STRING, CONFIG_TYPE_BOOL}
AggregateTypes == {CONFIG_TYPE_GROUP, CONFIG_TYPE_ARRAY, CONFIG_TYPE_LIST}
IntTypes == {CONFIG_TYPE_INT, CONFIG_TYPE_INT64}

\* the NULL pointer and the NULL name
NULL == <<>>
NONAME == ""
\* the names the configurations draw from
Names == {"a", "b"}

(***************************************************************************)
(* The tree container (libconfig.c, not part of the sources at hand).      *)
(***************************************************************************)
Setting(type, name, format, value, kids) ==
  [type |-> type, name |-> name, format |-> format, value |-> value, kids |-> kids]

RECURSIVE NodeAt(_, _)
NodeAt(n, path) ==
  IF path = <<>> THEN n ELSE NodeAt(n.kids[Head(path)], Tail(path))

\* the setting a non-NULL pointer designates
Deref(f, p) == NodeAt(f[p[1]], Tail(p))

RECURSIVE PutAt(_, _, _)
PutAt(n, path, new) ==
  IF path = <<>> THEN new
  ELSE [n EXCEPT !.kids[Head(path)] = PutAt(@, Tail(path), new)]

Store(f, p, new) == [f EXCEPT ![p[1]] = PutAt(@, Tail(p), new)]

config_setting_type(f, p) == Deref(f, p).type
config_setting_name(f, p) == Deref(f, p).name
config_setting_length(f, p) == Len(Deref(f, p).kids)
config_setting_get_elem(p, i) == Append(p, i + 1)
config_setting_is_group(f, p) == config_setting_type(f, p) = CONFIG_TYPE_GROUP
config_setting_is_list(f, p) == config_setting_type(f, p) = CONFIG_TYPE_LIST
config_setting_is_array(f, p) == config_setting_type(f, p) = CONFIG_TYPE_ARRAY
config_setting_is_aggregate(f, p) == config_setting_type(f, p) \in AggregateTypes

\* an array accepts only elements of the type of its first element
config_list_checktype(f, p, type) ==
  \/ ~config_setting_is_array(f, p)
  \/ config_setting_length(f, p) = 0
  \/ Deref(f, p).kids[1].type = type

config_setting_get_member(f, p, name) ==
  /\ config_setting_is_group(f, p)
  /\ name # NONAME
  /\ \E i \in 1..config_setting_length(f, p) : Deref(f, p).kids[i].name = name

\* appends a setting with a zeroed payload to an aggregate; a state is
\* [f: the configurations, fault: what stopped the process, set: the result]
config_setting_create(st, parent, name, type) ==
  IF ~config_setting_is_aggregate(st.f, parent) THEN [st EXCEPT !.set = NULL]
  ELSE LET old == Deref(st.f, parent)
           new == Setting(type, name, CONFIG_FORMAT_DEFAULT, 0, <<>>)
       IN [st EXCEPT !.f = Store(st.f, parent, [old EXCEPT !.kids = Append(@, new)]),
                     !.set = Append(parent, Len(old.kids) + 1)]

config_setting_add(st, parent, name, type) ==
  IF st.fault # "none" THEN st
  ELSE IF parent = NULL THEN [st EXCEPT !.set = NULL]
  ELSE IF config_setting_is_array(st.f, parent)
          /\ (type \notin ScalarTypes \/ ~config_list_checktype(st.f, parent, type))
    THEN [st EXCEPT !.set = NULL]
  ELSE LET nm == IF config_setting_is_array(st.f, parent)
                    \/ config_setting_is_list(st.f, parent)
                 THEN NONAME ELSE name
       IN IF config_setting_get_member(st.f, parent, nm)
          THEN [st EXCEPT !.set = NULL]
          ELSE config_setting_create(st, parent, nm, type)

\* config_setting_set_int, _int64, _float, _string, _bool: the setter of
\* 'type' applied to the setting 'set'; a NULL setting is dereferenced
config_setting_set(st, set, type, value) ==
  IF st.fault # "none" THEN st
  ELSE IF set = NULL THEN [st EXCEPT !.fault = "null_deref"]
  ELSE IF config_setting_type(st.f, set) # type THEN st
  ELSE [st EXCEPT !.f = Store(st.f, set, [Deref(st.f, set) EXCEPT !.value = value])]

config_setting_set_format(st, set, format) ==
  IF st.fault # "none" THEN st
  ELSE IF set = NULL THEN [st EXCEPT !.fault = "null_deref"]
  ELSE IF config_setting_type(st.f, set) \notin IntTypes
          \/ format \notin {CONFIG_FORMAT_DEFAULT, CONFIG_FORMAT_HEX}
    THEN st
  ELSE [st EXCEPT !.f = Store(st.f, set, [Deref(st.f, set) EXCEPT !.format = format])]

\* config_setting_set_int_elem(parent, -1, value) and its siblings: append
\* an element of 'type' to an array or a list
config_setting_set_elem(st, parent, type, value) ==
  IF st.fault # "none" THEN st
  ELSE IF parent = NULL THEN [st EXCEPT !.fault = "null_deref"]
  ELSE IF ~config_setting_is_array(st.f, parent) /\ ~config_setting_is_list(st.f, parent)
    THEN [st EXCEPT !.set = NULL]
  ELSE IF ~config_list_checktype(st.f, parent, type) THEN [st EXCEPT !.set = NULL]
  ELSE LET made == config_setting_create(st, parent, NONAME, type)
       IN config_setting_set(made, made.set, type, value)


(***************************************************************************)
(* The copier (contrib/copy_setting.c).  Every function takes the state    *)
(* and the number of stack frames left, and returns the state it leaves.   *)
(***************************************************************************)
RECURSIVE config_setting_copy_simple(_, _, _, _)
RECURSIVE config_setting_copy_elem(_, _, _, _)
RECURSIVE config_setting_copy_aggregate(_, _, _, _)
RECURSIVE CopyChildren(_, _, _, _, _, _)

\* a faulty config_setting_copy_simple: the format of the integer types is
\* not carried over
CopySimpleScalarNoFormat(st, parent, s) ==
  LET t == config_setting_type(st.f, s)
      added == config_setting_add(st, parent, config_setting_name(st.f, s), t)
  IN IF t \in ScalarTypes
       THEN config_setting_set(added, added.set, t, Deref(added.f, s).value)
       ELSE added

\* the scalar branch of config_setting_copy_simple: a named child, its
\* payload, and for the integer types its format
CopySimpleScalar(st, parent, s) ==
  LET t == config_setting_type(st.f, s)
      added == config_setting_add(st, parent, config_setting_name(st.f, s), t)
      set == added.set
      val == Deref(added.f, s).value
      fmt == Deref(added.f, s).format
  IN IF CONFIG_TYPE_INT = t
       THEN config_setting_set_format(
              config_setting_set(added, set, CONFIG_TYPE_INT, val), set, fmt)
     ELSE IF CONFIG_TYPE_INT64 = t
       THEN config_setting_set_format(
              config_setting_set(added, set, CONFIG_TYPE_INT64, val), set, fmt)
     ELSE IF CONFIG_TYPE_FLOAT = t
       THEN config_setting_set(added, set, CONFIG_TYPE_FLOAT, val)
     ELSE IF CONFIG_TYPE_STRING = t
       THEN config_setting_set(added, set, CONFIG_TYPE_STRING, val)
     ELSE IF CONFIG_TYPE_BOOL = t
       THEN config_setting_set(added, set, CONFIG_TYPE_BOOL, val)
     ELSE added

config_setting_copy_simple(st, parent, s, frames) ==
  IF st.fault # "none" THEN st
  ELSE IF frames = 0 THEN [st EXCEPT !.fault = "stack_overflow"]
  ELSE IF config_setting_is_aggregate(st.f, s)
    THEN config_setting_copy_aggregate(st, parent, s, frames - 1)
  ELSE CopySimpleScalar(st, parent, s)

\* a faulty config_setting_copy_elem: the branch of the strings is missing
CopyElemScalarNoString(st, parent, s) ==
  LET t == config_setting_type(st.f, s)
  IN IF t \in ScalarTypes \ {CONFIG_TYPE_STRING}
       THEN LET e == config_setting_set_elem(st, parent, t, Deref(st.f, s).value)
            IN IF t \in IntTypes
                 THEN config_setting_set_format(e, e.set, Deref(st.f, s).format)
                 ELSE e
       ELSE st

\* the scalar branches of config_setting_copy_elem: an element appended to
\* the parent, and for the integer types its format
CopyElemScalar(st, parent, s) ==
  LET t == config_setting_type(st.f, s)
      val == Deref(st.f, s).value
      fmt == Deref(st.f, s).format
  IN IF CONFIG_TYPE_INT = t
       THEN LET e == config_setting_set_elem(st, parent, CONFIG_TYPE_INT, val)
            IN config_setting_set_format(e, e.set, fmt)
     ELSE IF CONFIG_TYPE_INT64 = t
       THEN LET e == config_setting_set_elem(st, parent, CONFIG_TYPE_INT64, val)
            IN config_setting_set_format(e, e.set, fmt)
     ELSE IF CONFIG_TYPE_FLOAT = t
       THEN config_setting_set_elem(st, parent, CONFIG_TYPE_FLOAT, val)
     ELSE IF CONFIG_TYPE_STRING = t
       THEN config_setting_set_elem(st, parent, CONFIG_TYPE_STRING, val)
     ELSE IF CONFIG_TYPE_BOOL = t
       THEN config_setting_set_elem(st, parent, CONFIG_TYPE_BOOL, val)
     ELSE st

config_setting_copy_elem(st, parent, s, frames) ==
  IF st.fault # "none" THEN st
  ELSE IF frames = 0 THEN [st EXCEPT !.fault = "stack_overflow"]
  ELSE IF config_setting_is_aggregate(st.f, s)
    THEN config_setting_copy_aggregate(st, parent, s, frames - 1)
  ELSE CopyElemScalar(st, parent, s)

\* a faulty loop body: every child is copied by position
CopyChildByPosition(st, newAgg, s, child, frames) ==
  config_setting_copy_elem(st, newAgg, child, frames)

\* which of the two child copies the loop of config_setting_copy_aggregate
\* uses: by name for the children of a group, by position otherwise
CopyChild(st, newAgg, s, child, frames) ==
  IF config_setting_is_group(st.f, s)
    THEN config_setting_copy_simple(st, newAgg, child, frames)
    ELSE config_setting_copy_elem(st, newAgg, child, frames)

\* a faulty loop: it steps over every second child
CopyChildrenByTwo(st, newAgg, s, i, n, frames) ==
  IF i >= n \/ st.fault # "none" THEN st
  ELSE CopyChildren(CopyChild(st, newAgg, s, config_setting_get_elem(s, i), frames),
                    newAgg, s, i + 2, n, frames)

\* the loop of config_setting_copy_aggregate, from child i on
CopyChildren(st, newAgg, s, i, n, frames) ==
  IF i >= n \/ st.fault # "none" THEN st
  ELSE CopyChildren(CopyChild(st, newAgg, s, config_setting_get_elem(s, i), frames),
                    newAgg, s, i + 1, n, frames)

\* a faulty config_setting_copy_aggregate: the children are copied into
\* the parent, not into the new aggregate
CopyAggregateIntoParent(st, parent, s, frames) ==
  IF st.fault # "none" THEN st
  ELSE IF frames = 0 THEN [st EXCEPT !.fault = "stack_overflow"]
  ELSE LET added == config_setting_add(st, parent, config_setting_name(st.f, s),
                                       config_setting_type(st.f, s))
           n == config_setting_length(added.f, s)
       IN CopyChildren(added, parent, s, 0, n, frames - 1)

config_setting_copy_aggregate(st, parent, s, frames) ==
  IF st.fault # "none" THEN st
  ELSE IF frames = 0 THEN [st EXCEPT !.fault = "stack_overflow"]
  ELSE LET added == config_setting_add(st, parent, config_setting_name(st.f, s),
                                       config_setting_type(st.f, s))
           n == config_setting_length(added.f, s)
       IN CopyChildren(added, added.set, s, 0, n, frames - 1)

\* a faulty guard: it lets every aggregate pass, the arrays too
CopyGuardAnyAggregate(f, parent) == config_setting_is_aggregate(f, parent)

\* the guard of config_setting_copy: the parent is a group or a list
CopyGuard(f, parent) ==
  config_setting_is_group(f, parent) \/ config_setting_is_list(f, parent)

\* the frames a copy may use: more than any terminating copy of the model
\* needs (two per level of the source)
Frames == 2 * (MaxNodes + 2) + MaxStack

\* the entry point: [st: the state left, ret: what it returns]
config_setting_copy(f, parent, s) ==
  LET st == [f |-> f, fault |-> "none", set |-> NULL]
  IN IF ~CopyGuard(f, parent) THEN [st |-> st, ret |-> "CONFIG_FALSE"]
     ELSE [st |-> IF config_setting_is_aggregate(f, s)
                    THEN config_setting_copy_aggregate(st, parent, s, Frames)
                    ELSE config_setting_copy_simple(st, parent, s, Frames),
           ret |-> "CONFIG_TRUE"]

(***************************************************************************)
(* The configurations a run starts from: every well-formed tree within     *)
(* the bounds, as the parser builds them.                                  *)
(***************************************************************************)
\* the scalar settings the configurations draw from: both integer types in
\* both formats, and one setting of each other scalar type (a string payload
\* is the index of a text: the copier never looks into it)
Scalars ==
  { Setting(t, NONAME, CONFIG_FORMAT_DEFAULT, 0, <<>>) : t \in IntTypes }
  \cup { Setting(t, NONAME, CONFIG_FORMAT_HEX, 1, <<>>) : t \in IntTypes }
  \cup { Setting(t, NONAME, CONFIG_FORMAT_DEFAULT, 1, <<>>) : t \in ScalarTypes \ IntTypes }

RECURSIVE Size(_)
RECURSIVE SumSizes(_)
SumSizes(ks) == IF ks = <<>> THEN 0 ELSE Size(Head(ks)) + SumSizes(Tail(ks))
Size(n) == 1 + SumSizes(n.kids)

RECURSIVE Trees(_)
RECURSIVE Forests(_)

\* the sequences of unnamed trees with at most m settings in all
Forests(m) ==
  {<<>>} \cup UNION { { <<x>> \o r : r \in Forests(m - Size(x)) } : x \in Trees(m) }

Injections(k) == { nm \in [1..k -> Names] : \A i, j \in 1..k : nm[i] = nm[j] => i = j }

GroupKids(m) ==
  UNION { { [i \in 1..Len(ks) |-> [ks[i] EXCEPT !.name = nm[i]]] : nm \in Injections(Len(ks)) } :
          ks \in { k \in Forests(m) : Len(k) <= Cardinality(Names) } }

ArrayKids(m) ==
  { ks \in Forests(m) : \A i \in 1..Len(ks) :
       ks[i].type \in ScalarTypes /\ ks[i].type = ks[1].type }

\* the unnamed trees with at most n settings
Trees(n) ==
  IF n <= 0 THEN {}
  ELSE Scalars
       \cup { Setting(CONFIG_TYPE_GROUP, NONAME, CONFIG_FORMAT_DEFAULT, 0, ks) : ks \in GroupKids(n - 1) }
       \cup { Setting(CONFIG_TYPE_LIST, NONAME, CONFIG_FORMAT_DEFAULT, 0, ks) : ks \in Forests(n - 1) }
       \cup { Setting(CONFIG_TYPE_ARRAY, NONAME, CONFIG_FORMAT_DEFAULT, 0, ks) : ks \in ArrayKids(n - 1) }

\* a configuration's root is an unnamed group
Roots(n) ==
  { Setting(CONFIG_TYPE_GROUP, NONAME, CONFIG_FORMAT_DEFAULT, 0, ks) : ks \in GroupKids(n) }

EmptyRoot == Setting(CONFIG_TYPE_GROUP, NONAME, CONFIG_FORMAT_DEFAULT, 0, <<>>)
ListRoot ==
  Setting(CONFIG_TYPE_GROUP, NONAME, CONFIG_FORMAT_DEFAULT, 0,
          <<Setting(CONFIG_TYPE_LIST, "a", CONFIG_FORMAT_DEFAULT, 0, <<>>)>>)

RECURSIVE PathsOf(_)
PathsOf(n) ==
  {<<>>} \cup UNION { { <<i>> \o p : p \in PathsOf(n.kids[i]) } : i \in 1..Len(n.kids) }

\* every setting of every configuration, and those of the source configuration
Pointers(f) == UNION { { <<r>> \o p : p \in PathsOf(f[r]) } : r \in 1..Len(f) }
SourcePointers(f) == { <<1>> \o p : p \in PathsOf(f[1]) }

NoCall == [fn |-> "none"]

Init ==
  /\ cfg \in { <<r, EmptyRoot, ListRoot>> : r \in Roots(MaxNodes) }
  /\ pre = cfg
  /\ dst = NULL
  /\ src = NULL
  /\ ret = "none"
  /\ fault = "none"
  /\ build = "gnu_lp64"
  /\ call = NoCall

\* one call config_setting_copy(d, s) by the application
Copy(d, s) ==
  /\ ret = "none"
  /\ \E r \in {config_setting_copy(cfg, d, s)} :
        /\ cfg' = r.st.f
        /\ fault' = r.st.fault
        /\ ret' = IF r.st.fault # "none" THEN "fault" ELSE r.ret
  /\ pre' = cfg
  /\ dst' = d
  /\ src' = s
  /\ UNCHANGED <<build, call>>

Next == \E d \in Pointers(cfg), s \in SourcePointers(cfg) : Copy(d, s)

Spec == Init /\ [][Next]_vars

(***************************************************************************)
(* An application that calls config_setting_copy again and again, on any   *)
(* two settings of its configurations, until a call ends the process.      *)
(***************************************************************************)
\* number of settings below the root of the first configuration
MaxSeqNodes == 2
\* no further copy is made once the configurations hold this many settings
MaxSettings == 7

InitSeq ==
  /\ cfg \in { <<r, EmptyRoot, ListRoot>> : r \in Roots(MaxSeqNodes) }
  /\ pre = cfg
  /\ dst = NULL
  /\ src = NULL
  /\ ret = "none"
  /\ fault = "none"
  /\ build = "gnu_lp64"
  /\ call = NoCall

\* one more call config_setting_copy(d, s), after those that returned
CopyAgain(d, s) ==
  /\ ret \in {"none", "CONFIG_TRUE", "CONFIG_FALSE"}
  /\ SumSizes(cfg) < MaxSettings
  /\ \E r \in {config_setting_copy(cfg, d, s)} :
        /\ cfg' = r.st.f
        /\ fault' = r.st.fault
        /\ ret' = IF r.st.fault # "none" THEN "fault" ELSE r.ret
  /\ pre' = cfg
  /\ dst' = d
  /\ src' = s
  /\ UNCHANGED <<build, call>>

NextSeq == \E d \in Pointers(cfg), s \in Pointers(cfg) : CopyAgain(d, s)

SpecSeq == InitSeq /\ [][NextSeq]_vars

(***************************************************************************)
(* The numeric literal codec (lib/util.c).                                 *)
(*                                                                         *)
(* A text is a sequence of characters, ended by the NUL the C string ends  *)
(* with.  A 64-bit integer keeps its 64 bits, so that shifts and           *)
(* wrap-around are those of the machine.                                   *)
(***************************************************************************)
\* the width of long long, unsigned long long and int64_t
Width == 64
\* the width of long where it is not that of long long (Windows, MinGW)
LongWidth == Width \div 2

\* the builds the conditional compilation of util.c distinguishes:
\* __MINGW32__ (GCC, long of 32 bits), GCC with a long of 64 bits, and a
\* compiler that is not GCC
Builds == {"mingw", "gnu_lp64", "other"}

NUL == "NUL"
CharAt(s, p) == IF p \in 1..Len(s) THEN s[p] ELSE NUL

DecChars == <<"0", "1", "2", "3", "4", "5", "6", "7", "8", "9">>
UpperHex == <<"A", "B", "C", "D", "E", "F">>
LowerHex == <<"a", "b", "c", "d", "e", "f">>
Range(seq) == { seq[i] : i \in 1..Len(seq) }
IndexOf(seq, c) == CHOOSE i \in 1..Len(seq) : seq[i] = c

isxdigit(c) == c \in Range(DecChars) \cup Range(UpperHex) \cup Range(LowerHex)
isspace(c) == c = " "

\* the ASCII code of a hexadecimal digit
Ascii(c) ==
  IF c \in Range(DecChars) THEN 47 + IndexOf(DecChars, c)
  ELSE IF c \in Range(UpperHex) THEN 64 + IndexOf(UpperHex, c)
  ELSE 96 + IndexOf(LowerHex, c)

\* the value strtol gives a character as a digit (36: not a digit)
DigitValue(c) ==
  IF c \in Range(DecChars) THEN IndexOf(DecChars, c) - 1
  ELSE IF c \in Range(UpperHex) THEN 9 + IndexOf(UpperHex, c)
  ELSE IF c \in Range(LowerHex) THEN 9 + IndexOf(LowerHex, c)
  ELSE 36

\* a 64-bit integer is held as four limbs of 16 bits, least significant first
LimbBits == Width \div 4
LimbBase == 2^LimbBits
Limbs == 1..4

Zero64 == [i \in Limbs |-> 0]
AllOnes64 == [i \in Limbs |-> LimbBase - 1]

\* the 64-bit integer of a natural number below 2^31
Bits64(n) == <<n % LimbBase, (n \div LimbBase) % LimbBase, 0, 0>>

\* bit k (0 the least significant) of a 64-bit integer
Bit(v, k) == (v[(k \div LimbBits) + 1] \div 2^(k % LimbBits)) % 2

\* v * m + c for small m and c: the low 64 bits, and what is carried out
MulAdd(v, m, c) ==
  LET t1 == v[1] * m + c
      t2 == v[2] * m + (t1 \div LimbBase)
      t3 == v[3] * m + (t2 \div LimbBase)
      t4 == v[4] * m + (t3 \div LimbBase)
  IN [val |-> <<t1 % LimbBase, t2 % LimbBase, t3 % LimbBase, t4 % LimbBase>>,
      carry |-> t4 \div LimbBase]

\* -v in two's complement
Neg64(v) == MulAdd([i \in Limbs |-> LimbBase - 1 - v[i]], 1, 1).val

\* (v << k) | d for a d below 2^k: the bits shifted out are lost
ShlOr(v, k, d) == MulAdd(v, 2^k, d).val

(***************************************************************************)
(* Loops.  A loop of the C code whose condition depends on the position    *)
(* alone is its number of iterations and its body applied that often.      *)
(***************************************************************************)
\* the value of first, handed to Rest (TLC would otherwise hand on the
\* expression, and evaluate a long chain of them at the end)
Then(first, Rest(_)) == CHOOSE r \in { Rest(x) : x \in {first} } : TRUE

RECURSIVE ForEach(_, _, _, _)
\* acc after Body(acc, i) for i = a, a + 1, ..., b in this order
ForEach(Body(_, _), a, b, acc) ==
  IF a > b THEN acc
  ELSE IF a = b THEN Body(acc, a)
  ELSE Then(ForEach(Body, a, (a + b) \div 2, acc),
            LAMBDA x : ForEach(Body, ((a + b) \div 2) + 1, b, x))

\* the number of iterations of a loop that goes on while Cond(k) holds, k
\* counting them from 0; max when it has not ended by then
LoopCount(Cond(_), max) ==
  LET ends == { k \in 0..(max - 1) : ~Cond(k) }
  IN IF ends = {} THEN max ELSE CHOOSE n \in ends : \A k \in ends : n <= k

\* the number of characters of the class from position 'from' on
RunLen(s, from, class) == LoopCount(LAMBDA k : CharAt(s, from + k) \in class, Len(s))

(***************************************************************************)
(* strtoll and strtoull of the C library, as the C standard defines them.  *)
(***************************************************************************)
SkipSpace(s, p) == p + RunLen(s, p, {" "})

\* the characters that are digits of the base
DigitsOfBase(base) ==
  { c \in Range(DecChars) \cup Range(UpperHex) \cup Range(LowerHex) : DigitValue(c) < base }

\* one more digit: the number so far times the base plus the digit, and
\* whether it has left the 64 bits
ScanDigit(acc, base, c) ==
  Then(MulAdd(acc.mag, base, DigitValue(c)),
       LAMBDA next : [mag |-> next.val, ovf |-> acc.ovf \/ next.carry # 0])

\* the digits of the base from position p on: [mag, ovf, any, end]
ScanDigits(s, p, base) ==
  Then(RunLen(s, p, DigitsOfBase(base)), LAMBDA n :
    Then(ForEach(LAMBDA a, i : ScanDigit(a, base, s[i]), p, p + n - 1,
                 [mag |-> Zero64, ovf |-> FALSE]),
         LAMBDA acc : [mag |-> acc.mag, ovf |-> acc.ovf, any |-> n > 0, end |-> p + n]))

\* the subject sequence from position 'from' on: white space, a sign, a
\* prefix for the base, digits.  [neg, mag, ovf, any, end]; end is the
\* position of the first character not converted ('from' when none is)
ScanNumber(s, from, base) ==
  Then(SkipSpace(s, from), LAMBDA p0 :
    LET neg == CharAt(s, p0) = "-"
        p1 == IF CharAt(s, p0) \in {"-", "+"} THEN p0 + 1 ELSE p0
        hex == /\ base \in {0, 16}
               /\ CharAt(s, p1) = "0"
               /\ CharAt(s, p1 + 1) \in {"x", "X"}
               /\ isxdigit(CharAt(s, p1 + 2))
        b == IF hex THEN 16
             ELSE IF base # 0 THEN base
             ELSE IF CharAt(s, p1) = "0" THEN 8 ELSE 10
        p2 == IF hex THEN p1 + 2 ELSE p1
    IN Then(ScanDigits(s, p2, b), LAMBDA d :
         [neg |-> neg, mag |-> d.mag, ovf |-> d.ovf, any |-> d.any,
          end |-> IF d.any THEN d.end ELSE from]))

\* strtoull(s + from - 1, NULL, base): ULLONG_MAX on overflow
strtoull(s, from, base) ==
  Then(ScanNumber(s, from, base), LAMBDA n :
    IF ~n.any THEN Zero64
    ELSE IF n.ovf THEN AllOnes64
    ELSE IF n.neg THEN Neg64(n.mag) ELSE n.mag)

LLONG_MAX == [i \in Limbs |-> IF i = 4 THEN (LimbBase \div 2) - 1 ELSE LimbBase - 1]
LLONG_MIN == [i \in Limbs |-> IF i = 4 THEN LimbBase \div 2 ELSE 0]

\* strtoll(s, &endptr, base): [val, end, erange, any]
strtoll(s, base) ==
  Then(ScanNumber(s, 1, base), LAMBDA n :
    LET big == n.ovf \/ (Bit(n.mag, Width - 1) = 1 /\ ~(n.neg /\ n.mag = LLONG_MIN))
    IN [val |-> IF ~n.any THEN Zero64
                ELSE IF big THEN (IF n.neg THEN LLONG_MIN ELSE LLONG_MAX)
                ELSE IF n.neg THEN Neg64(n.mag) ELSE n.mag,
        end |-> n.end, erange |-> n.any /\ big, any |-> n.any])

(***************************************************************************)
(* libconfig_parse_integer, libconfig_parse_hex64, libconfig_parse_bin64.  *)
(* Each gives the set of the results the call may have.                    *)
(***************************************************************************)
\* a faulty test: the character that is left is not looked at
ParseRejectedByErrno(s, r, errno) == errno

\* the test that rejects a conversion: a character is left, or errno is set
ParseRejected(s, r, errno) == CharAt(s, r.end) # NUL \/ errno

\* errno after strtoll: ERANGE out of range; when nothing was converted the
\* library may set EINVAL
Errnos(r) == IF r.erange THEN {TRUE} ELSE IF ~r.any THEN {FALSE, TRUE} ELSE {FALSE}

libconfig_parse_integer(s) ==
  Then(strtoll(s, 0), LAMBDA r :
    { IF ParseRejected(s, r, errno)
        THEN [value |-> Zero64, ok |-> 0]
        ELSE [value |-> r.val, ok |-> 1] : errno \in Errnos(r) })

\* the body of the loop of the MinGW branch of libconfig_parse_hex64
HexStep(val, c) ==
  ShlOr(val, 4, IF Ascii(c) < 65 THEN Ascii(c) % 16 ELSE 9 + (Ascii(c) % 8))

\* the loop of the MinGW branch of libconfig_parse_hex64, from position p
HexLoop(s, p, val) ==
  ForEach(LAMBDA v, i : HexStep(v, s[i]), p,
          p + LoopCount(LAMBDA k : isxdigit(CharAt(s, p + k)), Len(s)) - 1, val)

libconfig_parse_hex64(b, s) ==
  IF b = "mingw"
    THEN IF CharAt(s, 1) # "0" THEN {Zero64}
         ELSE IF CharAt(s, 2) # "x" /\ CharAt(s, 2) # "X" THEN {Zero64}
         ELSE {HexLoop(s, 3, Zero64)}
    ELSE {strtoull(s, 1, 16)}

\* the body of the loop of the MinGW branch of libconfig_parse_bin64
BinStep(val, c) == ShlOr(val, 1, IF c = "1" THEN 1 ELSE 0)

\* the loop of the MinGW branch of libconfig_parse_bin64, from position p
BinLoop(s, p, val) ==
  ForEach(LAMBDA v, i : BinStep(v, s[i]), p,
          p + LoopCount(LAMBDA k : CharAt(s, p + k) = "0" \/ CharAt(s, p + k) = "1",
                        Len(s)) - 1, val)

\* what a read past the end of the text may give
Garbage64 == {Zero64, Bits64(1), AllOnes64}

libconfig_parse_bin64(b, s) ==
  IF b = "mingw"
    THEN IF CharAt(s, 1) # "0" THEN {Zero64}
         ELSE IF CharAt(s, 2) # "b" /\ CharAt(s, 2) # "B" THEN {Zero64}
         ELSE {BinLoop(s, 3, Zero64)}
    \* s + 2 lies past the terminating NUL of a text of fewer than 2 characters
    ELSE IF Len(s) < 2 THEN Garbage64
    ELSE {strtoull(s, 3, 2)}

(***************************************************************************)
(* snprintf of the C library for "%.*f" and "%.*g".  A double is NaN, an   *)
(* infinity, or a number of thousandths that a double holds exactly (a     *)
(* multiple of an eighth), so that the digits printed are exact.           *)
(***************************************************************************)
RECURSIVE NumDigits(_)
\* the number of decimal digits of a natural number
NumDigits(n) == IF n < 10 THEN 1 ELSE 1 + NumDigits(n \div 10)

\* the decimal digits of n in a field of w digits
DigitsOf(n, w) == [i \in 1..w |-> DecChars[((n \div 10^(w - i)) % 10) + 1]]
Dec(n) == DigitsOf(n, NumDigits(n))

\* n / d rounded to the nearest integer, a tie to the even one
RoundHalfEven(n, d) ==
  IF 2 * (n % d) > d \/ (2 * (n % d) = d /\ (n \div d) % 2 = 1)
    THEN (n \div d) + 1 ELSE n \div d

RECURSIVE StripZeros(_)
StripZeros(ds) ==
  IF ds # <<>> /\ ds[Len(ds)] = "0" THEN StripZeros(SubSeq(ds, 1, Len(ds) - 1)) ELSE ds

SignOf(val) == IF val.neg THEN <<"-">> ELSE <<>>

NonFinite(val) ==
  SignOf(val) \o (IF val.kind = "inf" THEN <<"i", "n", "f">> ELSE <<"n", "a", "n">>)

\* "%.*f": prec digits after the decimal point, none and no point for 0
FormatF(val, prec) ==
  IF val.kind # "finite" THEN NonFinite(val)
  ELSE LET q == IF prec >= 3 THEN val.num * 10^(prec - 3)
                ELSE RoundHalfEven(val.num, 10^(3 - prec))
       IN SignOf(val) \o Dec(q \div 10^prec)
          \o (IF prec = 0 THEN <<>> ELSE <<".">> \o DigitsOf(q % 10^prec, prec))

\* the fraction of a "%g" conversion: its trailing zeros are removed, and
\* the point with them when nothing is left
Fraction(ds) == IF StripZeros(ds) = <<>> THEN <<>> ELSE <<".">> \o StripZeros(ds)

\* "%.*g": P significant digits (1 for 0); with X the decimal exponent of
\* the rounded value, the style of %e if X < -4 or X >= P, else that of %f
FormatG(val, prec) ==
  IF val.kind # "finite" THEN NonFinite(val)
  ELSE IF val.num = 0 THEN SignOf(val) \o <<"0">>
  ELSE LET P == IF prec = 0 THEN 1 ELSE prec
           D == NumDigits(val.num)
           q0 == IF D > P THEN RoundHalfEven(val.num, 10^(D - P))
                 ELSE val.num * 10^(P - D)
           up == q0 = 10^P
           q == IF up THEN 10^(P - 1) ELSE q0
           X == IF up THEN D - 3 ELSE D - 4
           absX == IF X < 0 THEN 0 - X ELSE X
           f == P - 1 - X
       IN IF X < -4 \/ X >= P
            THEN SignOf(val) \o <<DigitsOf(q, P)[1]>> \o Fraction(Tail(DigitsOf(q, P)))
                 \o <<"e", IF X < 0 THEN "-" ELSE "+">>
                 \o (IF absX < 10 THEN <<"0">> ELSE <<>>) \o Dec(absX)
            ELSE SignOf(val) \o Dec(q \div 10^f) \o Fraction(DigitsOf(q % 10^f, f))

\* snprintf(buf, size, ...) for a size above 0: at most size - 1 characters
snprintf(size, text) ==
  SubSeq(text, 1, IF Len(text) < size - 1 THEN Len(text) ELSE size - 1)

strchr(buf, c) == IF c \in Range(buf) THEN IndexOf(buf, c) ELSE 0

(***************************************************************************)
(* libconfig_format_double                                                 *)
(***************************************************************************)
\* the text snprintf leaves in the buffer
Rendered(val, precision, sci_ok, buflen) ==
  snprintf(buflen - 3, IF sci_ok THEN FormatG(val, precision) ELSE FormatF(val, precision))

RECURSIVE StripLoop(_, _, _)
\* a faulty loop: it goes on until the decimal point itself
StripLoopToPoint(buf, q, p) ==
  IF q > p /\ buf[q] = "0" THEN StripLoop(SubSeq(buf, 1, q - 1), q - 1, p) ELSE buf

\* the loop that removes the excess trailing 0's: q and p are positions
StripLoop(buf, q, p) ==
  IF q > p + 1 /\ buf[q] = "0" THEN StripLoop(SubSeq(buf, 1, q - 1), q - 1, p) ELSE buf

\* a faulty finish: nothing is appended to a text without '.'
FormatDoubleFinishBare(buf) ==
  IF strchr(buf, "e") # 0 \/ strchr(buf, ".") = 0 THEN buf
  ELSE StripLoop(buf, Len(buf), strchr(buf, "."))

\* what libconfig_format_double makes of the text snprintf left
FormatDoubleFinish(buf) ==
  IF strchr(buf, "e") # 0 THEN buf
  ELSE IF strchr(buf, ".") = 0 THEN buf \o <<".", "0">>
  ELSE StripLoop(buf, Len(buf), strchr(buf, "."))

libconfig_format_double(val, precision, sci_ok, buflen) ==
  FormatDoubleFinish(Rendered(val, precision, sci_ok, buflen))

(***************************************************************************)
(* clzl and libconfig_format_bin                                           *)
(***************************************************************************)
\* the number of the w low bits of v that follow their leading zeros
BitLength(v, w) == w - LoopCount(LAMBDA k : Bit(v, w - 1 - k) = 0, w)

\* what __builtin_clzl may return for 0, for which it is undefined
ClzOfZero(w) == 0..w

\* in place of a count: the loop does not end
Hang == 0 - 1

\* the bits that are set in 'check' of the static clzl after k shifts of
\* 1ll << 63; 'arith' says that >> of a negative int64_t keeps the sign
CheckBits(k, arith) ==
  IF arith THEN { j \in 0..(Width - 1) : j >= Width - 1 - k }
  ELSE { j \in 0..(Width - 1) : j = Width - 1 - k }

\* the condition of the loop of the static clzl before its iteration k:
\* !(val & check) && check
ClzCond(val, k, arith) ==
  /\ \A j \in CheckBits(k, arith) : Bit(val, j) = 0
  /\ CheckBits(k, arith) # {}

\* the static clzl: the count 'leading', or Hang when the loop does not end
\* (after 64 shifts 'check' does not change any more)
ClzLoop(val, arith) ==
  LET leading == LoopCount(LAMBDA k : ClzCond(val, k, arith), Width + 1)
  IN IF leading > Width THEN Hang ELSE leading

\* clzl(val) of the build: the results it may have
clzl(b, val) ==
  IF b = "gnu_lp64"
    THEN IF val = Zero64 THEN ClzOfZero(Width) ELSE {Width - BitLength(val, Width)}
  ELSE IF b = "mingw"
    \* unsigned long has 32 bits: the argument is converted to it
    THEN IF BitLength(val, LongWidth) = 0 THEN ClzOfZero(LongWidth)
         ELSE {LongWidth - BitLength(val, LongWidth)}
  ELSE {ClzLoop(val, arith) : arith \in BOOLEAN}

\* the loop of libconfig_format_bin from c and i = 0: each iteration
\* writes one character and adds 1 to c and to i
FormatBinLoop(val, c, buflen) ==
  ForEach(LAMBDA buf, k : Append(buf, IF Bit(val, Width - 1 - (c + k)) = 1 THEN "1" ELSE "0"),
          0, LoopCount(LAMBDA k : c + k < Width /\ k < buflen - 1, Width) - 1, <<>>)

\* the results libconfig_format_bin may have: [buf, hang]
libconfig_format_bin(b, val, buflen) ==
  { IF c = Hang THEN [buf |-> <<>>, hang |-> TRUE]
    ELSE [buf |-> FormatBinLoop(val, c, buflen), hang |-> FALSE] : c \in clzl(b, val) }

(***************************************************************************)
(* The calls of the codec a run makes: the texts and values they are       *)
(* given.                                                                  *)
(***************************************************************************)
\* the longest run of one digit in a text given to libconfig_parse_integer,
\* libconfig_parse_hex64 and libconfig_parse_bin64
MaxIntRun == 22
MaxHexRun == 17
MaxBinRun == 65
\* the doubles are k eighths times a power of ten, printed with a precision
MaxEighths == 9
MaxScale == 3
MaxPrec == 4
\* the small buffers given to libconfig_format_bin
MaxBufLen == 4

Rep(c, n) == [i \in 1..n |-> c]

\* sequences of at most two of these characters
ShortDigits ==
  LET cs == {"0", "1", "8", "A"}
  IN {<<>>} \cup { <<c>> : c \in cs } \cup { <<c, d>> : c, d \in cs }

IntTexts ==
  { lead \o sign \o prefix \o body \o tail :
      lead \in {<<>>, <<" ">>}, sign \in {<<>>, <<"-">>, <<"+">>},
      prefix \in {<<>>, <<"0">>, <<"0", "x">>, <<"0", "X">>},
      body \in ShortDigits, tail \in {<<>>, <<"x">>, <<" ">>} }
  \cup
  { sign \o prefix \o <<h>> \o Rep(d, n) :
      sign \in {<<>>, <<"-">>}, prefix \in {<<>>, <<"0">>, <<"0", "x">>},
      h \in {"7", "8"}, d \in {"0", "7", "9", "f"}, n \in 0..MaxIntRun }

HexTexts ==
  { prefix \o Rep(d1, n1) \o Rep(d2, n2) \o tail :
      prefix \in {<<"0", "x">>, <<"0", "X">>, <<>>, <<"0">>, <<"-">>, <<" ">>},
      d1 \in {"1", "F"}, n1 \in 0..MaxHexRun,
      d2 \in {"F", "a", "0"}, n2 \in 0..1, tail \in {<<>>, <<"g">>} }

BinTexts ==
  { prefix \o Rep("1", n1) \o Rep(d2, n2) \o tail :
      prefix \in {<<"0", "b">>, <<"0", "B">>, <<>>, <<"0">>, <<"0", "b", "-">>, <<"0", "b", " ">>},
      n1 \in 0..MaxBinRun, d2 \in {"0", "1"}, n2 \in 0..1, tail \in {<<>>, <<"2">>} }
  \cup {<<"0", "b", "1", "0", "1">>, <<"1", "0", "1">>}

Doubles ==
  { [kind |-> "finite", neg |-> n, num |-> 125 * k * 10^e] :
      n \in BOOLEAN, k \in 0..MaxEighths, e \in 0..MaxScale }
  \cup { [kind |-> "inf", neg |-> n, num |-> 0] : n \in BOOLEAN }
  \cup { [kind |-> "nan", neg |-> FALSE, num |-> 0] }

\* the buffers given to libconfig_format_double: one that cuts the text
\* short, and one of the size the library uses
DoubleBufLens == {8, 64}

\* v << k
Shl64(v, k) ==
  MulAdd([i \in Limbs |-> IF i > k \div LimbBits THEN v[i - (k \div LimbBits)] ELSE 0],
         2^(k % LimbBits), 0).val

Int64s ==
  { Shl64(Bits64(n), k) : n \in {0, 1, 5}, k \in 0..(Width - 1) } \cup {AllOnes64}

\* the buffers given to libconfig_format_bin: small ones, and two that hold
\* 64 digits
BinBufLens == (1..MaxBufLen) \cup {Width + 1, Width + 2}

\* a run is one call of one function of the codec, in one build
InitCodec ==
  /\ cfg = <<EmptyRoot>>
  /\ pre = cfg
  /\ dst = NULL
  /\ src = NULL
  /\ ret = "none"
  /\ fault = "none"
  /\ build \in Builds
  /\ call = NoCall

ParseInteger(s) ==
  /\ call = NoCall
  /\ \E r \in libconfig_parse_integer(s) :
       call' = [fn |-> "parse_integer", s |-> s, value |-> r.value, ok |-> r.ok]
  /\ UNCHANGED <<cfg, pre, dst, src, ret, fault, build>>

ParseHex64(s) ==
  /\ call = NoCall
  /\ \E v \in libconfig_parse_hex64(build, s) :
       call' = [fn |-> "parse_hex64", s |-> s, value |-> v]
  /\ UNCHANGED <<cfg, pre, dst, src, ret, fault, build>>

ParseBin64(s) ==
  /\ call = NoCall
  /\ \E v \in libconfig_parse_bin64(build, s) :
       call' = [fn |-> "parse_bin64", s |-> s, value |-> v]
  /\ UNCHANGED <<cfg, pre, dst, src, ret, fault, build>>

FormatDouble(val, precision, sci_ok, buflen) ==
  /\ call = NoCall
  /\ call' = [fn |-> "format_double", val |-> val, precision |-> precision,
              sci_ok |-> sci_ok, buflen |-> buflen,
              rendered |-> Rendered(val, precision, sci_ok, buflen),
              buf |-> libconfig_format_double(val, precision, sci_ok, buflen)]
  /\ UNCHANGED <<cfg, pre, dst, src, ret, fault, build>>

FormatBin(val, buflen) ==
  /\ call = NoCall
  /\ \E r \in libconfig_format_bin(build, val, buflen) :
       call' = [fn |-> "format_bin", val |-> val, buflen |-> buflen,
                buf |-> r.buf, hang |-> r.hang]
  /\ UNCHANGED <<cfg, pre, dst, src, ret, fault, build>>

NextCodec ==
  \/ \E s \in IntTexts : ParseInteger(s)
  \/ \E s \in HexTexts : ParseHex64(s)
  \/ \E s \in BinTexts : ParseBin64(s)
  \/ \E val \in Doubles, precision \in 0..MaxPrec, sci_ok \in BOOLEAN,
        buflen \in DoubleBufLens : FormatDouble(val, precision, sci_ok, buflen)
  \/ \E val \in Int64s, buflen \in BinBufLens : FormatBin(val, buflen)

SpecCodec == InitCodec /\ [][NextCodec]_vars

(***************************************************************************)
(* What a finished call is compared with.                                  *)
(***************************************************************************)
Called == ret # "none"
Returned == ret \in {"CONFIG_TRUE", "CONFIG_FALSE"}

\* the source subtree and the destination as they were when copy was called
Source == Deref(pre, src)
OldDst == Deref(pre, dst)
NewDst == Deref(cfg, dst)

\* the call returned true and the destination gained one child: the clone
Created == /\ ret = "CONFIG_TRUE"
           /\ Len(NewDst.kids) = Len(OldDst.kids) + 1
Clone == NewDst.kids[Len(NewDst.kids)]

\* the destination was a group or a list without children
FreshDst == /\ OldDst.type \in {CONFIG_TYPE_GROUP, CONFIG_TYPE_LIST}
            /\ OldDst.kids = <<>>

RECURSIVE HasPath(_, _)
HasPath(n, path) ==
  \/ path = <<>>
  \/ /\ Head(path) \in 1..Len(n.kids)
     /\ HasPath(n.kids[Head(path)], Tail(path))

\* the path without its last step: the parent of the setting at the path
Front(path) == SubSeq(path, 1, Len(path) - 1)

\* C1: whenever the destination is an array or a scalar, copy returns false
\* and changes nothing: no setting is created, and every configuration
\* (the destination's and the source's) is as it was.
C1_TopLevelGuard ==
  (Called /\ OldDst.type \in {CONFIG_TYPE_ARRAY} \cup ScalarTypes)
    => (ret = "CONFIG_FALSE" /\ fault = "none" /\ cfg = pre)

C1_Witness ==
  /\ Called
  /\ OldDst.type = CONFIG_TYPE_ARRAY
  /\ Source.type = CONFIG_TYPE_GROUP
  /\ Len(Source.kids) = 2
  /\ ret = "CONFIG_FALSE"

\* C2 as stated: a copy into a fresh group or list leaves under it exactly
\* one clone that equals the source in every setting: type, name, value,
\* format, and the number and order of the children.
C2_RoundTripAsStated ==
  (ret = "CONFIG_TRUE" /\ FreshDst)
    => (Len(NewDst.kids) = 1 /\ NewDst.kids[1] = Source)

\* C2 amended: the same, except that the clone itself has no name when the
\* destination is a list; the settings below it keep their names.
C2_RoundTrip ==
  (ret = "CONFIG_TRUE" /\ FreshDst)
    => /\ Len(NewDst.kids) = 1
       /\ NewDst.kids[1] =
            [Source EXCEPT !.name = IF OldDst.type = CONFIG_TYPE_LIST THEN NONAME ELSE @]

C2_Witness ==
  /\ ret = "CONFIG_TRUE"
  /\ FreshDst
  /\ OldDst.type = CONFIG_TYPE_LIST
  /\ Source.type = CONFIG_TYPE_LIST
  /\ Source.name # NONAME
  /\ Len(Source.kids) = 2
  /\ Source.kids[1] # Source.kids[2]
  /\ Len(NewDst.kids) = 1

\* C3: in a clone, every setting whose source has a group as parent carries
\* the source's name (at every depth), and every setting whose source has an
\* array or a list as parent has no name: the children are copied by the
\* kind of the source.
C3_NameDispatch ==
  Created =>
    \A p \in PathsOf(Source) \ {<<>>} :
      /\ HasPath(Clone, p)
      /\ IF NodeAt(Source, Front(p)).type = CONFIG_TYPE_GROUP
           THEN /\ NodeAt(Clone, p).name = NodeAt(Source, p).name
                /\ NodeAt(Clone, p).name # NONAME
           ELSE NodeAt(Clone, p).name = NONAME

C3_Witness ==
  /\ Created
  /\ Source.type = CONFIG_TYPE_GROUP
  /\ \E i \in 1..Len(Source.kids) :
       /\ Source.kids[i].type = CONFIG_TYPE_GROUP
       /\ Len(Source.kids[i].kids) = 1
       /\ HasPath(Clone, <<i, 1>>)
       /\ NodeAt(Clone, <<i, 1>>).name = Source.kids[i].kids[1].name

\* C4: in a clone, every Int or Int64 setting has the format of its source
\* (copied by name or by position), and no setting of another type has the
\* format Hex.
C4_Format ==
  Created =>
    \A p \in PathsOf(Source) :
      /\ HasPath(Clone, p)
      /\ NodeAt(Clone, p).type = NodeAt(Source, p).type
      /\ IF NodeAt(Clone, p).type \in IntTypes
           THEN NodeAt(Clone, p).format = NodeAt(Source, p).format
           ELSE NodeAt(Clone, p).format # CONFIG_FORMAT_HEX

C4_Witness ==
  /\ Created
  /\ Source.type = CONFIG_TYPE_GROUP
  /\ Len(Source.kids) = 2
  /\ Source.kids[1].type = CONFIG_TYPE_INT
  /\ Source.kids[1].format = CONFIG_FORMAT_HEX
  /\ Source.kids[2].type = CONFIG_TYPE_ARRAY
  /\ Len(Source.kids[2].kids) = 1
  /\ Source.kids[2].kids[1].type = CONFIG_TYPE_INT64
  /\ Source.kids[2].kids[1].format = CONFIG_FORMAT_HEX
  /\ Clone.kids[1].format = CONFIG_FORMAT_HEX

\* the children of an array all have the scalar type t
Homogeneous(n, t) ==
  /\ t \in ScalarTypes
  /\ \A i \in 1..Len(n.kids) : n.kids[i].type = t

\* C5: the clone of an array whose children all have one scalar type is an
\* array with as many children, all of that type.
C5_ArrayHomogeneity ==
  Created =>
    \A p \in PathsOf(Source) : \A t \in ScalarTypes :
      (NodeAt(Source, p).type = CONFIG_TYPE_ARRAY /\ Homogeneous(NodeAt(Source, p), t))
        => /\ HasPath(Clone, p)
           /\ NodeAt(Clone, p).type = CONFIG_TYPE_ARRAY
           /\ Len(NodeAt(Clone, p).kids) = Len(NodeAt(Source, p).kids)
           /\ Homogeneous(NodeAt(Clone, p), t)

C5_Witness ==
  /\ Created
  /\ Source.type = CONFIG_TYPE_ARRAY
  /\ Len(Source.kids) = 2
  /\ Homogeneous(Source, CONFIG_TYPE_STRING)
  /\ Len(Clone.kids) = 2

(***************************************************************************)
(* What a call of the codec is compared with: the literals as the          *)
(* specification describes them.                                           *)
(***************************************************************************)
\* the characters of the class that follow one another from 'from' on
Run(s, from, class) ==
  SubSeq(s, from,
         CHOOSE e \in (from - 1)..Len(s) :
           /\ \A i \in from..e : s[i] \in class
           /\ CharAt(s, e + 1) \notin class)

\* an integer literal: white space, a sign, and digits of the base its
\* first characters select.  [neg, base, digits]
Literal(s) ==
  LET p0 == 1 + Len(Run(s, 1, {" "}))
      p1 == IF CharAt(s, p0) \in {"-", "+"} THEN p0 + 1 ELSE p0
      base == IF CharAt(s, p1) = "0" /\ CharAt(s, p1 + 1) \in {"x", "X"} THEN 16
              ELSE IF CharAt(s, p1) = "0" THEN 8 ELSE 10
  IN [neg |-> CharAt(s, p0) = "-", base |-> base,
      digits |-> SubSeq(s, IF base = 16 THEN p1 + 2 ELSE p1, Len(s))]

IsIntegerLiteral(s) ==
  /\ Literal(s).digits # <<>>
  /\ \A i \in 1..Len(Literal(s).digits) : DigitValue(Literal(s).digits[i]) < Literal(s).base

\* the number the digits denote in the base: [val, ovf], ovf when it does
\* not fit 64 bits
Horner(ds, base) ==
  ForEach(LAMBDA acc, i : [val |-> MulAdd(acc.val, base, DigitValue(ds[i])).val,
                           ovf |-> acc.ovf \/ MulAdd(acc.val, base, DigitValue(ds[i])).carry # 0],
          1, Len(ds), [val |-> Zero64, ovf |-> FALSE])

Magnitude(s) == Horner(Literal(s).digits, Literal(s).base)

\* the literal denotes a number from -2^63 to 2^63 - 1
InRange64(s) ==
  /\ ~Magnitude(s).ovf
  /\ \/ Bit(Magnitude(s).val, Width - 1) = 0
     \/ Literal(s).neg /\ Magnitude(s).val = LLONG_MIN

LiteralValue(s) == IF Literal(s).neg THEN Neg64(Magnitude(s).val) ELSE Magnitude(s).val

\* C6: parseInteger succeeds only on a text that is, as a whole, a literal
\* of the base its first characters select (0x: 16, 0: 8, else 10) within
\* the signed 64-bit range, and then returns its value; a failure returns
\* the value 0.  "08" fails, "0x1A" is 26, "10" is 10.
C6_ParseInteger ==
  call.fn = "parse_integer" =>
    /\ call.ok = 1 =>
         \/ call.s = <<>> /\ call.value = Zero64
         \/ /\ IsIntegerLiteral(call.s)
            /\ InRange64(call.s)
            /\ call.value = LiteralValue(call.s)
    /\ call.ok = 0 => call.value = Zero64
    /\ call.s = <<"0", "8">> => call.ok = 0
    /\ call.s = <<"0", "x", "1", "A">> => (call.ok = 1 /\ call.value = Bits64(26))
    /\ call.s = <<"1", "0">> => (call.ok = 1 /\ call.value = Bits64(10))

C6_Witness ==
  /\ call.fn = "parse_integer"
  /\ call.s = <<"0", "8">>
  /\ call.ok = 0

\* the text begins with 0 and one of the letters
HasPrefix(s, letters) == CharAt(s, 1) = "0" /\ CharAt(s, 2) \in letters

\* C7: parseHex64 returns 0 for every text that does not begin with 0x or
\* 0X, and parseBin64 returns 0 for every text that does not begin with 0b
\* or 0B.
C7_MissingPrefixYieldsZero ==
  /\ (call.fn = "parse_hex64" /\ ~HasPrefix(call.s, {"x", "X"})) => call.value = Zero64
  /\ (call.fn = "parse_bin64" /\ ~HasPrefix(call.s, {"b", "B"})) => call.value = Zero64

\* the digit k places from the end of a run of digits (0 past its start)
FromEnd(run, k) == IF k < Len(run) THEN DigitValue(run[Len(run) - k]) ELSE 0

\* the number the maximal run of digits after the prefix denotes, modulo
\* 2^64: that of its last 64 / bits digits, limb by limb
RunValue(s, class, bits) ==
  LET run == Run(s, 3, class)
      perLimb == LimbBits \div bits
  IN [j \in Limbs |->
        ForEach(LAMBDA sum, i : sum + FromEnd(run, (j - 1) * perLimb + i) * 2^(bits * i),
                0, perLimb - 1, 0)]

\* C8: after the prefix, parseHex64 returns the value of the maximal run of
\* hexadecimal digits modulo 2^64, and parseBin64 that of the maximal run of
\* the characters 0 and 1; what follows the run is ignored.
C8_AccumulateWraps ==
  /\ (call.fn = "parse_hex64" /\ HasPrefix(call.s, {"x", "X"}))
       => call.value = RunValue(call.s, Range(DecChars) \cup Range(UpperHex) \cup Range(LowerHex), 4)
  /\ (call.fn = "parse_bin64" /\ HasPrefix(call.s, {"b", "B"}))
       => call.value = RunValue(call.s, {"0", "1"}, 1)

\* C9: the text of formatDouble holds a decimal point or an exponent
\* marker; it is the rendered text with ".0" appended when that has
\* neither.  1.0 and 100.0 with precision 2 give "1.0" and "100.0".
C9_FormatDouble ==
  call.fn = "format_double" =>
    /\ "." \in Range(call.buf) \/ "e" \in Range(call.buf)
    /\ ("." \notin Range(call.rendered) /\ "e" \notin Range(call.rendered))
         => call.buf = call.rendered \o <<".", "0">>
    /\ (/\ call.val = [kind |-> "finite", neg |-> FALSE, num |-> 1000]
        /\ call.precision = 2 /\ ~call.sci_ok /\ call.buflen = 64)
         => call.buf = <<"1", ".", "0">>
    /\ (/\ call.val = [kind |-> "finite", neg |-> FALSE, num |-> 100000]
        /\ call.precision = 2 /\ ~call.sci_ok /\ call.buflen = 64)
         => call.buf = <<"1", "0", "0", ".", "0">>

C9_Witness ==
  /\ call.fn = "format_double"
  /\ call.rendered = <<"1", "0", "0">>
  /\ call.buf = <<"1", "0", "0", ".", "0">>

\* the number of bits of the minimal binary representation of a value that
\* is not 0
MinimalLength(v) ==
  CHOOSE l \in 1..Width :
    /\ Bit(v, l - 1) = 1
    /\ \A j \in l..(Width - 1) : Bit(v, j) = 0

\* C10: for a value that is not 0, formatBinary writes the first
\* min(L, bufferCapacity - 1) characters of the minimal binary
\* representation, whose length is L = 64 - the number of leading zero bits.
C10_FormatBinary ==
  (call.fn = "format_bin" /\ call.val # Zero64) =>
    /\ ~call.hang
    /\ LET L == MinimalLength(call.val)
           n == IF L < call.buflen - 1 THEN L ELSE call.buflen - 1
       IN call.buf = [i \in 1..n |-> IF Bit(call.val, L - i) = 1 THEN "1" ELSE "0"]

\* the position of the decimal point of a text that has one
PointOf(text) ==
  CHOOSE i \in 1..Len(text) : text[i] = "." /\ \A j \in 1..(i - 1) : text[j] # "."

\* C13: a rendered text with an exponent marker is returned as it is.  Of
\* one without a marker and with a decimal point, only '0' characters at
\* the end are removed: everything up to the character after the point
\* stays, and what is left ends in a '0' only if that '0' directly follows
\* the point.
C13_StripTrailingZeros ==
  call.fn = "format_double" =>
    /\ "e" \in Range(call.rendered) => call.buf = call.rendered
    /\ ("e" \notin Range(call.rendered) /\ "." \in Range(call.rendered)) =>
         /\ Len(call.buf) <= Len(call.rendered)
         /\ call.buf = SubSeq(call.rendered, 1, Len(call.buf))
         /\ \A i \in (Len(call.buf) + 1)..Len(call.rendered) : call.rendered[i] = "0"
         /\ \A i \in 1..Len(call.rendered) :
              i <= PointOf(call.rendered) + 1 => i <= Len(call.buf)
         /\ Len(call.buf) > PointOf(call.rendered) + 1 => call.buf[Len(call.buf)] # "0"

C13_Witness ==
  /\ call.fn = "format_double"
  /\ call.rendered = <<"1", "2", ".", "5", "0", "0", "0">>
  /\ call.buf = <<"1", "2", ".", "5">>

\* C14: formatBinary of the value 0 ends and writes the empty string, for
\* every buffer of at least one character.
C14_FormatBinaryOfZero ==
  (call.fn = "format_bin" /\ call.val = Zero64 /\ call.buflen >= 1) =>
    (~call.hang /\ call.buf = <<>>)

(***************************************************************************)
(* What a call of the copier returns, and what it leaves alone.            *)
(***************************************************************************)
\* C12: for every destination that is a group or a list and every source,
\* copy returns true, also when the container rejects a creation below it.
C12_AlwaysTrue ==
  (Called /\ OldDst.type \in {CONFIG_TYPE_GROUP, CONFIG_TYPE_LIST})
    => ret = "CONFIG_TRUE"

\* the source subtree is as it was
SourceKept == Deref(cfg, src) = Source

\* every setting there was before the call is where it was, with its type,
\* name, value and format, and only the destination has got more children
ExistingKept ==
  /\ Len(cfg) = Len(pre)
  /\ \A r \in 1..Len(pre) : \A p \in PathsOf(pre[r]) :
       /\ HasPath(cfg[r], p)
       /\ NodeAt(cfg[r], p).type = NodeAt(pre[r], p).type
       /\ NodeAt(cfg[r], p).name = NodeAt(pre[r], p).name
       /\ NodeAt(cfg[r], p).value = NodeAt(pre[r], p).value
       /\ NodeAt(cfg[r], p).format = NodeAt(pre[r], p).format
       /\ Len(NodeAt(cfg[r], p).kids) >= Len(NodeAt(pre[r], p).kids)
       /\ <<r>> \o p # dst => Len(NodeAt(cfg[r], p).kids) = Len(NodeAt(pre[r], p).kids)

\* C15 as stated: a copy that returns true leaves the source subtree and
\* every setting of before the call as they were, and the destination has
\* exactly one child more, after the others, with as many settings below
\* and including it as the source subtree has.
C15_FrameAsStated ==
  ret = "CONFIG_TRUE" =>
    /\ SourceKept
    /\ ExistingKept
    /\ Created
    /\ Size(Clone) = Size(Source)

\* C15 amended: the same, or the copy has changed nothing at all (the
\* container has rejected the creation of the clone).
C15_Frame ==
  ret = "CONFIG_TRUE" =>
    /\ SourceKept
    /\ ExistingKept
    /\ \/ cfg = pre
       \/ Created /\ Size(Clone) = Size(Source)

C15_Witness ==
  /\ ret = "CONFIG_TRUE"
  /\ Created
  /\ Len(OldDst.kids) = 1
  /\ Source.type = CONFIG_TYPE_GROUP
  /\ Len(Source.kids) = 2
  /\ Size(Clone) = 3

(***************************************************************************)
(* The names of the settings after copies.                                 *)
(***************************************************************************)
RECURSIVE WellNamed(_)
\* the children of every group below and including n have names, each
\* another, and the children of every array and list have none
WellNamed(n) ==
  /\ \A i \in 1..Len(n.kids) :
       /\ WellNamed(n.kids[i])
       /\ IF n.type = CONFIG_TYPE_GROUP
            THEN /\ n.kids[i].name # NONAME
                 /\ \A j \in 1..Len(n.kids) : n.kids[j].name = n.kids[i].name => j = i
            ELSE n.kids[i].name = NONAME

\* C11: after any number of copies that returned, every child of a group
\* has a name that no other child of it has, and no child of an array or
\* a list has a name.
C11_NamingKept ==
  ret \in {"none", "CONFIG_TRUE", "CONFIG_FALSE"} => \A r \in 1..Len(cfg) : WellNamed(cfg[r])

=============================================================================
